---- MODULE Spec2Model ----
(***************************************************************************)
(* Multi-Rack FG Stock Board (part_table_app.py): the session state        *)
(* (racks, history, part_master), the Input page's Apply handler, the      *)
(* Master page's Add / Update Part handler, the Output page's FIFO Part    *)
(* Finder, and the cell-number <-> grid-index helpers.                     *)
(*                                                                         *)
(* The session is the one of a signed-in master user, who sees all three   *)
(* pages.  The Timestamp and Note fields of a history entry are written    *)
(* and never read by the code modelled here; they are left out of the      *)
(* entries.  Weights are kept in hundredths of a kilogram.                 *)
(***************************************************************************)
EXTENDS Integers, Sequences, FiniteSets, TLC

VARIABLES
    racks,        \* st.session_state.racks
    history,      \* st.session_state.history (index 1 is Python index 0)
    part_master,  \* st.session_state.part_master
    last,         \* the handler that ran last, its widget values, its message
    fifo,         \* the FIFO Part Finder's local `fifo` after its scan
    chron,        \* history variable: the entries recorded, in execution order
    since,        \* history variable: per (rack, cell_no), when its present
                  \* stock arrived (0 when the cell is empty)
    map_rack,     \* coordinate helpers under test: the rack shape
    map_cell_no,  \*   the cell number given to cell_no_to_indices
    map_idx,      \*   its result
    map_back,     \*   indices_to_cell_no of that result
    map_pc,       \*   "idle", "start", "indexed", "back", "direct"
    map_direct,   \*   indices given to indices_to_cell_no directly, its result
    weigh_cell,   \* cell_total_weight under test: the cell given to it
    weigh_ret     \*   what it returned

vars == <<racks, history, part_master, last, fifo, chron, since,
          map_rack, map_cell_no, map_idx, map_back, map_pc, map_direct,
          weigh_cell, weigh_ret>>

mapvars == <<map_rack, map_cell_no, map_idx, map_back, map_pc, map_direct,
             weigh_cell, weigh_ret>>
session == <<racks, history, part_master, last, fifo, chron, since>>

(***************************************************************************)
(* Bounds of the model                                                     *)
(***************************************************************************)
MaxHist == 3      \* entries recorded in one run of Spec
MaxDeep == 4      \* entries recorded in one run of SpecDeep
MaxRows == 3      \* rack shapes of the helper check: rows in 1..MaxRows
MaxSpaces == 7    \*   and spaces in 1..MaxSpaces
MaxShapeHist == 2 \* entries recorded in one run of SpecShape

(***************************************************************************)
(* Constants of the program                                                *)
(***************************************************************************)
None == "<None>"                 \* Python's None

PACKAGING_WEIGHT == 2500
CELL_CAPACITY == 25
RACK_SPACES ==
    ("A" :> 9) @@ ("B" :> 15) @@ ("C" :> 12) @@ ("D" :> 6) @@ ("E" :> 24) @@ ("F" :> 57)
FIXED_ROWS == 3

user == "Vishal"

\* math.ceil(spaces / rows) for positive integers
Ceil(spaces, rows) == (spaces + rows - 1) \div rows

EmptyCell == [PartNo |-> None, Quantity |-> 0]

NewRack(rows, spaces) ==
    LET cols == Ceil(spaces, rows)
    IN  [rows |-> rows, cols |-> cols, spaces |-> spaces,
         array |-> [r \in 0..(rows - 1) |-> [c \in 0..(cols - 1) |-> EmptyCell]]]

InitRacks == [rn \in DOMAIN RACK_SPACES |-> NewRack(FIXED_ROWS, RACK_SPACES[rn])]

InitPartMaster ==
    ("10283026" :> [Weight |-> 805, Customer |-> "Mahindra Pune", TubeLength |-> 1254]) @@
    ("10291078" :> [Weight |-> 790, Customer |-> "Mahindra Pune", TubeLength |-> 1245]) @@
    ("10282069" :> [Weight |-> 895, Customer |-> "Mahindra Pune", TubeLength |-> 1262])

(***************************************************************************)
(* Values the widgets are given                                            *)
(***************************************************************************)
RackInputs == {"A", "D"}
\* rack A: its last cell (top-right); rack D: its first (bottom-left)
CellInputs(rack_ui) == IF rack_ui = "A" THEN {RACK_SPACES["A"]} ELSE {1}
SlotInputs == UNION {{<<rn, n>> : n \in CellInputs(rn)} : rn \in RackInputs}
\* Variant: the Quantity widget without min_value=1
QtyInputs_NoMin == {0, 1, CELL_CAPACITY - 1, CELL_CAPACITY + 1}

QtyInputs == {1, CELL_CAPACITY - 1, CELL_CAPACITY + 1}
ActionInputs == {"Add", "Subtract"}
NewPart == "20000001"
StockedParts == {"10283026", "10291078"}
SearchInputs == StockedParts \cup {NewPart}
MasterPnInputs == {"", NewPart}
MasterWtInputs == {0, 500}

(***************************************************************************)
(* Utilities                                                               *)
(***************************************************************************)
Entry(action, rack, cell_no, part_no, qty, usr) ==
    [Action |-> action, Rack |-> rack, Cell |-> cell_no,
     PartNo |-> part_no, Quantity |-> qty, User |-> usr]

\* Variant: history.append({...}) in place of history.insert(0, {...})
add_history_append(h, action, rack, cell_no, part_no, qty, usr) ==
    h \o <<Entry(action, rack, cell_no, part_no, qty, usr)>>

\* history.insert(0, {...})
add_history(h, action, rack, cell_no, part_no, qty, usr) ==
    <<Entry(action, rack, cell_no, part_no, qty, usr)>> \o h

\* Variant: the row is found by dividing by rows in place of cols
cell_no_to_indices_by_rows(rack, cell_no) ==
    LET cols == rack.cols
        rows == rack.rows
    IN  IF cell_no < 1 \/ cell_no > rack.spaces
        THEN [raised |-> TRUE, row_idx |-> 0, col_idx |-> 0]
        ELSE LET row_order_from_bottom == (cell_no - 1) \div rows
             IN  [raised |-> FALSE,
                  row_idx |-> rows - 1 - row_order_from_bottom,
                  col_idx |-> (cell_no - 1) % cols]

\* Variant: the cell number is checked against rows * cols, the size of the
\* array, in place of spaces
cell_no_to_indices_array_size(rack, cell_no) ==
    LET cols == rack.cols
        rows == rack.rows
    IN  IF cell_no < 1 \/ cell_no > rows * cols
        THEN [raised |-> TRUE, row_idx |-> 0, col_idx |-> 0]
        ELSE LET row_order_from_bottom == (cell_no - 1) \div cols
             IN  [raised |-> FALSE,
                  row_idx |-> rows - 1 - row_order_from_bottom,
                  col_idx |-> (cell_no - 1) % cols]

\* Variant: cell numbers are taken to start at 0 (cell_no < 0 is checked)
cell_no_to_indices_from_zero(rack, cell_no) ==
    LET cols == rack.cols
        rows == rack.rows
    IN  IF cell_no < 0 \/ cell_no > rack.spaces
        THEN [raised |-> TRUE, row_idx |-> 0, col_idx |-> 0]
        ELSE LET row_order_from_bottom == (cell_no - 1) \div cols
             IN  [raised |-> FALSE,
                  row_idx |-> rows - 1 - row_order_from_bottom,
                  col_idx |-> (cell_no - 1) % cols]

cell_no_to_indices(rack, cell_no) ==
    LET cols == rack.cols
        rows == rack.rows
    IN  IF cell_no < 1 \/ cell_no > rack.spaces
        THEN [raised |-> TRUE, row_idx |-> 0, col_idx |-> 0]
        ELSE LET row_order_from_bottom == (cell_no - 1) \div cols
             IN  [raised |-> FALSE,
                  row_idx |-> rows - 1 - row_order_from_bottom,
                  col_idx |-> (cell_no - 1) % cols]

indices_to_cell_no(rack, row_idx, col_idx) ==
    LET cols == rack.cols
        rows == rack.rows
    IN  IF row_idx < 0 \/ row_idx >= rows \/ col_idx < 0 \/ col_idx >= cols
        THEN [raised |-> TRUE, cell_no |-> 0]
        ELSE LET row_order_from_bottom == rows - 1 - row_idx
             IN  [raised |-> FALSE,
                  cell_no |-> row_order_from_bottom * cols + col_idx + 1]

\* Variant: part_master[pn]["Weight"] with no default: a part that is not in
\* the master weighs nothing
cell_total_weight_known_only(cell, pm_all) ==
    LET pn == cell.PartNo
        qty == cell.Quantity
    IN  IF qty > 0 /\ pn \notin {None, ""} /\ pn \in DOMAIN pm_all
        THEN qty * pm_all[pn].Weight + PACKAGING_WEIGHT
        ELSE 0

\* `pn` is false for None and for the empty string; pm.get("Weight", 0.0)
cell_total_weight(cell, pm_all) ==
    LET pn == cell.PartNo
        qty == cell.Quantity
    IN  IF qty > 0 /\ pn \notin {None, ""}
        THEN LET Weight == IF pn \in DOMAIN pm_all THEN pm_all[pn].Weight ELSE 0
             IN  qty * Weight + PACKAGING_WEIGHT
        ELSE 0

(***************************************************************************)
(* prepare_rack_grid_csv: the rows of the grid export.  The loop over the  *)
(* columns of one row stops (break) once cell_no has passed spaces; the    *)
(* loop over the rows goes on.                                             *)
(***************************************************************************)
\* the racks in the order of st.session_state.racks.items()
RackNames == <<"A", "B", "C", "D", "E", "F">>

GridRow(rn, cell_no, c, pm_all) ==
    LET known == c.PartNo \notin {None, ""} /\ c.PartNo \in DOMAIN pm_all
    IN  [Rack |-> rn, Cell |-> cell_no, PartNo |-> c.PartNo,
         Customer |-> IF known THEN pm_all[c.PartNo].Customer ELSE "",
         TubeLength |-> IF known THEN pm_all[c.PartNo].TubeLength ELSE "",
         Quantity |-> c.Quantity,
         TotalWeight |-> cell_total_weight(c, pm_all)]

\* Variant: the rows of the array are read top row first (display_row =
\* row_order)
RECURSIVE GridColsTopFirst(_, _, _, _, _, _, _)
GridColsTopFirst(rn, rack, pm_all, row_order, col, cell_no, rows_out) ==
    IF col >= rack.cols \/ cell_no > rack.spaces
    THEN [cell_no |-> cell_no, rows_out |-> rows_out]
    ELSE LET c == rack.array[row_order][col]
         IN  GridColsTopFirst(rn, rack, pm_all, row_order, col + 1, cell_no + 1,
                              Append(rows_out, GridRow(rn, cell_no, c, pm_all)))

\* for col in range(rack["cols"]): if cell_no > rack["spaces"]: break; ...
RECURSIVE GridCols(_, _, _, _, _, _, _)
GridCols(rn, rack, pm_all, row_order, col, cell_no, rows_out) ==
    IF col >= rack.cols \/ cell_no > rack.spaces
    THEN [cell_no |-> cell_no, rows_out |-> rows_out]
    ELSE LET display_row == rack.rows - 1 - row_order
             c == rack.array[display_row][col]
         IN  GridCols(rn, rack, pm_all, row_order, col + 1, cell_no + 1,
                      Append(rows_out, GridRow(rn, cell_no, c, pm_all)))

\* for row_order in range(rack["rows"]): ...
RECURSIVE GridRows(_, _, _, _, _, _)
GridRows(rn, rack, pm_all, row_order, cell_no, rows_out) ==
    IF row_order >= rack.rows THEN rows_out
    ELSE LET done == GridCols(rn, rack, pm_all, row_order, 0, cell_no, rows_out)
         IN  GridRows(rn, rack, pm_all, row_order + 1, done.cell_no, done.rows_out)

\* for rn, rack in st.session_state.racks.items(): cell_no = 1; ...
RECURSIVE GridRacks(_, _, _, _)
GridRacks(rks, pm_all, i, rows_out) ==
    IF i > Len(RackNames) THEN rows_out
    ELSE IF RackNames[i] \in DOMAIN rks
         THEN GridRacks(rks, pm_all, i + 1,
                        GridRows(RackNames[i], rks[RackNames[i]], pm_all, 0, 1, rows_out))
         ELSE GridRacks(rks, pm_all, i + 1, rows_out)

prepare_rack_grid_csv(rks, pm_all) == GridRacks(rks, pm_all, 1, <<>>)

(***************************************************************************)
(* Messages shown by the handlers (st.success / st.error / st.warning)     *)
(***************************************************************************)
Msg(kind, text) == [kind |-> kind, text |-> text]
NoMsg == Msg("none", "")

(***************************************************************************)
(* INPUT tab: the two branches of the Apply handler, on the target cell.   *)
(* Each gives the cell afterwards, whether add_history is called, and the  *)
(* message.                                                                *)
(***************************************************************************)
\* Variant: no capacity check
AddBranch_NoCapacity(cell, part_no, qty) ==
    IF cell.PartNo \in {None, part_no}
    THEN [cell |-> [PartNo |-> part_no, Quantity |-> cell.Quantity + qty],
          recorded |-> TRUE,
          msg |-> Msg("success", "Added")]
    ELSE [cell |-> cell, recorded |-> FALSE,
          msg |-> Msg("error", "Cell already has a different part")]

\* Variant: the part number is written before the capacity check
AddBranch_PartFirst(cell, part_no, qty) ==
    IF cell.PartNo \in {None, part_no}
    THEN IF cell.Quantity + qty <= CELL_CAPACITY
         THEN [cell |-> [PartNo |-> part_no, Quantity |-> cell.Quantity + qty],
               recorded |-> TRUE,
               msg |-> Msg("success", "Added")]
         ELSE [cell |-> [PartNo |-> part_no, Quantity |-> cell.Quantity],
               recorded |-> FALSE,
               msg |-> Msg("error", "Exceeds cell capacity")]
    ELSE [cell |-> cell, recorded |-> FALSE,
          msg |-> Msg("error", "Cell already has a different part")]

\* Variant: the capacity check comes before the part check
AddBranch_CapacityFirst(cell, part_no, qty) ==
    IF cell.Quantity + qty <= CELL_CAPACITY
    THEN IF cell.PartNo \in {None, part_no}
         THEN [cell |-> [PartNo |-> part_no, Quantity |-> cell.Quantity + qty],
               recorded |-> TRUE,
               msg |-> Msg("success", "Added")]
         ELSE [cell |-> cell, recorded |-> FALSE,
               msg |-> Msg("error", "Cell already has a different part")]
    ELSE [cell |-> cell, recorded |-> FALSE,
          msg |-> Msg("error", "Exceeds cell capacity")]

\* Variant: < in place of <= in the capacity check
AddBranch_Strict(cell, part_no, qty) ==
    IF cell.PartNo \in {None, part_no}
    THEN IF cell.Quantity + qty < CELL_CAPACITY
         THEN [cell |-> [PartNo |-> part_no, Quantity |-> cell.Quantity + qty],
               recorded |-> TRUE,
               msg |-> Msg("success", "Added")]
         ELSE [cell |-> cell, recorded |-> FALSE,
               msg |-> Msg("error", "Exceeds cell capacity")]
    ELSE [cell |-> cell, recorded |-> FALSE,
          msg |-> Msg("error", "Cell already has a different part")]

\* Variant: the quantity is assigned (=) in place of added (+=)
AddBranch_Assign(cell, part_no, qty) ==
    IF cell.PartNo \in {None, part_no}
    THEN IF cell.Quantity + qty <= CELL_CAPACITY
         THEN [cell |-> [PartNo |-> part_no, Quantity |-> qty],
               recorded |-> TRUE,
               msg |-> Msg("success", "Added")]
         ELSE [cell |-> cell, recorded |-> FALSE,
               msg |-> Msg("error", "Exceeds cell capacity")]
    ELSE [cell |-> cell, recorded |-> FALSE,
          msg |-> Msg("error", "Cell already has a different part")]

AddBranch(cell, part_no, qty) ==
    IF cell.PartNo \in {None, part_no}
    THEN IF cell.Quantity + qty <= CELL_CAPACITY
         THEN [cell |-> [PartNo |-> part_no, Quantity |-> cell.Quantity + qty],
               recorded |-> TRUE,
               msg |-> Msg("success", "Added")]
         ELSE [cell |-> cell, recorded |-> FALSE,
               msg |-> Msg("error", "Exceeds cell capacity")]
    ELSE [cell |-> cell, recorded |-> FALSE,
          msg |-> Msg("error", "Cell already has a different part")]

\* Variant: the part number is kept when the quantity reaches 0
SubtractBranch_KeepPart(cell, part_no, qty) ==
    IF cell.PartNo = part_no /\ cell.Quantity >= qty
    THEN [cell |-> [PartNo |-> cell.PartNo, Quantity |-> cell.Quantity - qty],
          recorded |-> TRUE,
          msg |-> Msg("success", "Subtracted")]
    ELSE [cell |-> cell, recorded |-> FALSE,
          msg |-> Msg("error", "Mismatch or insufficient stock")]

\* Variant: the held quantity is not compared with qty
SubtractBranch_NoStockCheck(cell, part_no, qty) ==
    IF cell.PartNo = part_no
    THEN LET q == cell.Quantity - qty
         IN  [cell |-> [PartNo |-> IF q = 0 THEN None ELSE cell.PartNo,
                        Quantity |-> q],
              recorded |-> TRUE,
              msg |-> Msg("success", "Subtracted")]
    ELSE [cell |-> cell, recorded |-> FALSE,
          msg |-> Msg("error", "Mismatch or insufficient stock")]

\* Variant: the Subtract branch does not call add_history
SubtractBranch_Unrecorded(cell, part_no, qty) ==
    IF cell.PartNo = part_no /\ cell.Quantity >= qty
    THEN LET q == cell.Quantity - qty
         IN  [cell |-> [PartNo |-> IF q = 0 THEN None ELSE cell.PartNo,
                        Quantity |-> q],
              recorded |-> FALSE,
              msg |-> Msg("success", "Subtracted")]
    ELSE [cell |-> cell, recorded |-> FALSE,
          msg |-> Msg("error", "Mismatch or insufficient stock")]

SubtractBranch(cell, part_no, qty) ==
    IF cell.PartNo = part_no /\ cell.Quantity >= qty
    THEN LET q == cell.Quantity - qty
         IN  [cell |-> [PartNo |-> IF q = 0 THEN None ELSE cell.PartNo,
                        Quantity |-> q],
              recorded |-> TRUE,
              msg |-> Msg("success", "Subtracted")]
    ELSE [cell |-> cell, recorded |-> FALSE,
          msg |-> Msg("error", "Mismatch or insufficient stock")]

(***************************************************************************)
(* OUTPUT tab: the FIFO Part Finder's scan, oldest entry first.            *)
(* h[1] is the most recent entry, so reversed(h) visits Len(h), ..., 1.    *)
(***************************************************************************)
FifoNone == [Rack |-> None, Cell |-> 0, Qty |-> 0]

RECURSIVE FifoFrom(_, _, _, _)
FifoFrom(h, rks, search_part, i) ==
    IF i < 1 THEN FifoNone
    ELSE LET ev == h[i]
         IN  IF ev.Action = "Add" /\ ev.PartNo = search_part
             THEN IF ev.Rack \notin DOMAIN rks
                  THEN FifoFrom(h, rks, search_part, i - 1)
                  ELSE LET rack_check == rks[ev.Rack]
                           idx == cell_no_to_indices(rack_check, ev.Cell)
                       IN  IF idx.raised
                           THEN FifoFrom(h, rks, search_part, i - 1)
                           ELSE LET cell == rack_check.array[idx.row_idx][idx.col_idx]
                                IN  IF cell.PartNo = search_part /\ cell.Quantity > 0
                                    THEN [Rack |-> ev.Rack, Cell |-> ev.Cell,
                                          Qty |-> cell.Quantity]
                                    ELSE FifoFrom(h, rks, search_part, i - 1)
             ELSE FifoFrom(h, rks, search_part, i - 1)

\* Variant: the scan without reversed(), newest entry first
RECURSIVE FifoUpFrom(_, _, _, _)
FifoUpFrom(h, rks, search_part, i) ==
    IF i > Len(h) THEN FifoNone
    ELSE LET ev == h[i]
         IN  IF ev.Action = "Add" /\ ev.PartNo = search_part
             THEN LET rack_check == rks[ev.Rack]
                      idx == cell_no_to_indices(rack_check, ev.Cell)
                      cell == rack_check.array[idx.row_idx][idx.col_idx]
                  IN  IF cell.PartNo = search_part /\ cell.Quantity > 0
                      THEN [Rack |-> ev.Rack, Cell |-> ev.Cell, Qty |-> cell.Quantity]
                      ELSE FifoUpFrom(h, rks, search_part, i + 1)
             ELSE FifoUpFrom(h, rks, search_part, i + 1)

FifoScan_NewestFirst(h, rks, search_part) == FifoUpFrom(h, rks, search_part, 1)

\* Variant: the scan stops at the oldest Add of the part, passing or not
RECURSIVE FifoStopFrom(_, _, _, _)
FifoStopFrom(h, rks, search_part, i) ==
    IF i = 0 THEN FifoNone
    ELSE LET ev == h[i]
         IN  IF ev.Action = "Add" /\ ev.PartNo = search_part
             THEN LET rack_check == rks[ev.Rack]
                      idx == cell_no_to_indices(rack_check, ev.Cell)
                      cell == rack_check.array[idx.row_idx][idx.col_idx]
                  IN  IF cell.PartNo = search_part /\ cell.Quantity > 0
                      THEN [Rack |-> ev.Rack, Cell |-> ev.Cell, Qty |-> cell.Quantity]
                      ELSE FifoNone
             ELSE FifoStopFrom(h, rks, search_part, i - 1)

FifoScan_OldestAddOnly(h, rks, search_part) == FifoStopFrom(h, rks, search_part, Len(h))

FifoScan(h, rks, search_part) == FifoFrom(h, rks, search_part, Len(h))

(***************************************************************************)
(* Initial state: the session state after the first run of the script.     *)
(***************************************************************************)
NoLast ==
    [op |-> "none", action |-> "", rack |-> "", cell_no |-> 0,
     part_no |-> "", qty |-> 0, msg |-> NoMsg]

NoMapIdx == [raised |-> FALSE, row_idx |-> 0, col_idx |-> 0]
NoMapBack == [raised |-> FALSE, cell_no |-> 0]
NoMapDirect == [row_idx |-> 0, col_idx |-> 0, ret |-> NoMapBack]
NotWeighed == [returned |-> FALSE, value |-> 0]

Init ==
    /\ racks = InitRacks
    /\ history = <<>>
    /\ part_master = InitPartMaster
    /\ last = NoLast
    /\ fifo = FifoNone
    /\ chron = <<>>
    /\ since = [s \in SlotInputs |-> 0]
    /\ map_rack = NewRack(1, 1)
    /\ map_cell_no = 0
    /\ map_idx = NoMapIdx
    /\ map_back = NoMapBack
    /\ map_pc = "idle"
    /\ map_direct = NoMapDirect
    /\ weigh_cell = EmptyCell
    /\ weigh_ret = NotWeighed

(***************************************************************************)
(* INPUT tab: Apply                                                        *)
(***************************************************************************)
\* Variant: the rows of a rack's array are one shared list, so a write to a
\* cell shows in its column in every row
Apply_SharedRows(rack_ui, cell_no, part_no, qty, action) ==
    LET rack_data == racks[rack_ui]
        idx == cell_no_to_indices(rack_data, cell_no)
    IN  /\ IF idx.raised
           THEN /\ last' = [op |-> "Apply", action |-> action, rack |-> rack_ui,
                            cell_no |-> cell_no, part_no |-> part_no, qty |-> qty,
                            msg |-> Msg("error", "Invalid cell number")]
                /\ UNCHANGED <<racks, history, chron, since>>
           ELSE LET cell == rack_data.array[idx.row_idx][idx.col_idx]
                    res == IF action = "Add"
                           THEN AddBranch(cell, part_no, qty)
                           ELSE SubtractBranch(cell, part_no, qty)
                IN  /\ racks' = [racks EXCEPT
                                   ![rack_ui].array =
                                       [r \in DOMAIN @ |->
                                           [@[r] EXCEPT ![idx.col_idx] = res.cell]]]
                    /\ history' = IF res.recorded
                                  THEN add_history(history, action, rack_ui, cell_no,
                                                   part_no, qty, user)
                                  ELSE history
                    /\ last' = [op |-> "Apply", action |-> action, rack |-> rack_ui,
                                cell_no |-> cell_no, part_no |-> part_no, qty |-> qty,
                                msg |-> res.msg]
                    /\ chron' = IF res.recorded
                                THEN Append(chron, Entry(action, rack_ui, cell_no,
                                                         part_no, qty, user))
                                ELSE chron
                    /\ since' = IF ~res.recorded THEN since
                                ELSE IF res.cell.Quantity = 0
                                THEN [since EXCEPT ![<<rack_ui, cell_no>>] = 0]
                                ELSE IF cell.Quantity = 0
                                THEN [since EXCEPT ![<<rack_ui, cell_no>>] = Len(chron) + 1]
                                ELSE since
        /\ fifo' = FifoNone
        /\ UNCHANGED <<part_master, mapvars>>

Apply(rack_ui, cell_no, part_no, qty, action) ==
    LET rack_data == racks[rack_ui]
        idx == cell_no_to_indices(rack_data, cell_no)
    IN  /\ IF idx.raised
           THEN /\ last' = [op |-> "Apply", action |-> action, rack |-> rack_ui,
                            cell_no |-> cell_no, part_no |-> part_no, qty |-> qty,
                            msg |-> Msg("error", "Invalid cell number")]
                /\ UNCHANGED <<racks, history, chron, since>>
           ELSE LET cell == rack_data.array[idx.row_idx][idx.col_idx]
                    res == IF action = "Add"
                           THEN AddBranch(cell, part_no, qty)
                           ELSE SubtractBranch(cell, part_no, qty)
                IN  /\ racks' = [racks EXCEPT
                                   ![rack_ui].array[idx.row_idx][idx.col_idx] = res.cell]
                    /\ history' = IF res.recorded
                                  THEN add_history(history, action, rack_ui, cell_no,
                                                   part_no, qty, user)
                                  ELSE history
                    /\ last' = [op |-> "Apply", action |-> action, rack |-> rack_ui,
                                cell_no |-> cell_no, part_no |-> part_no, qty |-> qty,
                                msg |-> res.msg]
                    /\ chron' = IF res.recorded
                                THEN Append(chron, Entry(action, rack_ui, cell_no,
                                                         part_no, qty, user))
                                ELSE chron
                    /\ since' = IF ~res.recorded THEN since
                                ELSE IF res.cell.Quantity = 0
                                THEN [since EXCEPT ![<<rack_ui, cell_no>>] = 0]
                                ELSE IF cell.Quantity = 0
                                THEN [since EXCEPT ![<<rack_ui, cell_no>>] = Len(chron) + 1]
                                ELSE since
        /\ fifo' = FifoNone
        /\ UNCHANGED <<part_master, mapvars>>

ApplyForm(cap) ==
    /\ Len(history) < cap
    /\ \E rack_ui \in RackInputs :
      \E cell_no \in CellInputs(rack_ui) :
        \E part_no \in DOMAIN part_master \cap StockedParts :
          \E qty \in QtyInputs :
            \E action \in ActionInputs :
              Apply(rack_ui, cell_no, part_no, qty, action)

(***************************************************************************)
(* MASTER tab: Add / Update Part                                           *)
(***************************************************************************)
\* Variant: a part already in the master keeps its record (setdefault)
MasterUpdate_InsertOnly(pn, wt, cust, tube) ==
    /\ IF pn # ""
       THEN /\ part_master' =
                 [k \in DOMAIN part_master \cup {pn} |->
                    IF k \in DOMAIN part_master
                    THEN part_master[k]
                    ELSE [Weight |-> wt, Customer |-> cust, TubeLength |-> tube]]
            /\ history' = add_history(history, "Master Update", "-", "-", pn, 0, user)
            /\ chron' = Append(chron, Entry("Master Update", "-", "-", pn, 0, user))
            /\ last' = [op |-> "Master", action |-> "", rack |-> "", cell_no |-> 0,
                        part_no |-> pn, qty |-> 0,
                        msg |-> Msg("success", "Updated master")]
       ELSE /\ UNCHANGED <<part_master, history, chron>>
            /\ last' = [op |-> "Master", action |-> "", rack |-> "", cell_no |-> 0,
                        part_no |-> pn, qty |-> 0, msg |-> NoMsg]
    /\ fifo' = FifoNone
    /\ UNCHANGED <<racks, since, mapvars>>

MasterUpdate(pn, wt, cust, tube) ==
    /\ IF pn # ""
       THEN /\ part_master' =
                 [k \in DOMAIN part_master \cup {pn} |->
                    IF k = pn
                    THEN [Weight |-> wt, Customer |-> cust, TubeLength |-> tube]
                    ELSE part_master[k]]
            /\ history' = add_history(history, "Master Update", "-", "-", pn, 0, user)
            /\ chron' = Append(chron, Entry("Master Update", "-", "-", pn, 0, user))
            /\ last' = [op |-> "Master", action |-> "", rack |-> "", cell_no |-> 0,
                        part_no |-> pn, qty |-> 0,
                        msg |-> Msg("success", "Updated master")]
       ELSE /\ UNCHANGED <<part_master, history, chron>>
            /\ last' = [op |-> "Master", action |-> "", rack |-> "", cell_no |-> 0,
                        part_no |-> pn, qty |-> 0, msg |-> NoMsg]
    /\ fifo' = FifoNone
    /\ UNCHANGED <<racks, since, mapvars>>

PartMasterForm(cap) ==
    /\ Len(history) < cap
    /\ \E pn \in MasterPnInputs :
      \E wt \in MasterWtInputs :
        MasterUpdate(pn, wt, "Mahindra Pune", 1254)

(***************************************************************************)
(* OUTPUT tab: Find FIFO Cell                                              *)
(***************************************************************************)
FindFifo(search_part) ==
    LET f == FifoScan(history, racks, search_part)
    IN  /\ fifo' = f
        /\ last' = [op |-> "FindFifo", action |-> "", rack |-> "", cell_no |-> 0,
                    part_no |-> search_part, qty |-> 0,
                    msg |-> IF f # FifoNone
                            THEN Msg("success", "FIFO pick")
                            ELSE Msg("warning", "No FIFO candidate found")]
        /\ UNCHANGED <<racks, history, part_master, chron, since, mapvars>>

FifoButton == \E search_part \in SearchInputs : FindFifo(search_part)

Next == ApplyForm(MaxHist) \/ PartMasterForm(MaxHist) \/ FifoButton

Spec == Init /\ [][Next]_vars

\* The same session, run for one more recorded entry.
NextDeep == ApplyForm(MaxDeep) \/ PartMasterForm(MaxDeep) \/ FifoButton

SpecDeep == Init /\ [][NextDeep]_vars

(***************************************************************************)
(* The coordinate helpers on their own: a rack of any shape (built as the  *)
(* racks initialisation builds one), a cell number, cell_no_to_indices,    *)
(* then indices_to_cell_no of the indices it returned.                     *)
(***************************************************************************)
InitMap ==
    /\ racks = InitRacks
    /\ history = <<>>
    /\ part_master = InitPartMaster
    /\ last = NoLast
    /\ fifo = FifoNone
    /\ chron = <<>>
    /\ since = [s \in SlotInputs |-> 0]
    /\ map_rack \in {NewRack(rows, spaces) : rows \in 1..MaxRows, spaces \in 1..MaxSpaces}
    /\ map_cell_no \in 0..(map_rack.spaces + 1)
    /\ map_idx = NoMapIdx
    /\ map_back = NoMapBack
    /\ map_pc = "start"
    /\ map_direct = NoMapDirect
    /\ weigh_cell = EmptyCell
    /\ weigh_ret = NotWeighed

ToIndices ==
    /\ map_pc = "start"
    /\ map_idx' = cell_no_to_indices(map_rack, map_cell_no)
    /\ map_pc' = "indexed"
    /\ UNCHANGED <<session, map_rack, map_cell_no, map_back, map_direct,
                   weigh_cell, weigh_ret>>

\* not reached when cell_no_to_indices raised
ToCellNo ==
    /\ map_pc = "indexed"
    /\ ~map_idx.raised
    /\ map_back' = indices_to_cell_no(map_rack, map_idx.row_idx, map_idx.col_idx)
    /\ map_pc' = "back"
    /\ UNCHANGED <<session, map_rack, map_cell_no, map_idx, map_direct,
                   weigh_cell, weigh_ret>>

NextMap == ToIndices \/ ToCellNo

SpecMap == InitMap /\ [][NextMap]_vars

(***************************************************************************)
(* cell_total_weight on its own: a cell as the Apply handler can leave     *)
(* one, empty or holding 1..CELL_CAPACITY pieces of a part, which is in    *)
(* the part master or is not.                                              *)
(***************************************************************************)
WeighCells ==
    {EmptyCell} \cup
    {[PartNo |-> pn, Quantity |-> qty] :
        pn \in DOMAIN InitPartMaster \cup {NewPart}, qty \in 1..CELL_CAPACITY}

InitWeigh ==
    /\ racks = InitRacks
    /\ history = <<>>
    /\ part_master = InitPartMaster
    /\ last = NoLast
    /\ fifo = FifoNone
    /\ chron = <<>>
    /\ since = [s \in SlotInputs |-> 0]
    /\ map_rack = NewRack(1, 1)
    /\ map_cell_no = 0
    /\ map_idx = NoMapIdx
    /\ map_back = NoMapBack
    /\ map_pc = "idle"
    /\ map_direct = NoMapDirect
    /\ weigh_cell \in WeighCells
    /\ weigh_ret = NotWeighed

Weigh ==
    /\ ~weigh_ret.returned
    /\ weigh_ret' = [returned |-> TRUE,
                     value |-> cell_total_weight(weigh_cell, part_master)]
    /\ UNCHANGED <<session, map_rack, map_cell_no, map_idx, map_back, map_pc,
                   map_direct, weigh_cell>>

NextWeigh == Weigh

SpecWeigh == InitWeigh /\ [][NextWeigh]_vars

(***************************************************************************)
(* The cell-number operations on a rack of any shape, called as the code   *)
(* around them does not call them: the session is that of the script with  *)
(* RACK_SPACES and FIXED_ROWS naming one rack "A" of the shape; the Apply   *)
(* handler's body is entered with cell numbers on both sides of the        *)
(* range the Cell No widget allows, 0 and spaces + 1 among them; and       *)
(* indices_to_cell_no, which the script defines and never calls, is given  *)
(* the indices of every position of the grid and of the ring around it.    *)
(* A run drives the handler or makes one call of indices_to_cell_no.       *)
(***************************************************************************)
ShapePart == "10283026"
ShapeCellInputs(rack) == {0, 1, rack.spaces, rack.spaces + 1}

InitShape ==
    /\ racks \in {[rn \in {"A"} |-> NewRack(rows, spaces)] :
                    rows \in 1..MaxRows, spaces \in 1..MaxSpaces}
    /\ history = <<>>
    /\ part_master = InitPartMaster
    /\ last = NoLast
    /\ fifo = FifoNone
    /\ chron = <<>>
    /\ since = [s \in {<<"A", n>> : n \in ShapeCellInputs(racks["A"])} |-> 0]
    /\ map_rack = NewRack(1, 1)
    /\ map_cell_no = 0
    /\ map_idx = NoMapIdx
    /\ map_back = NoMapBack
    /\ map_pc = "idle"
    /\ map_direct = NoMapDirect
    /\ weigh_cell = EmptyCell
    /\ weigh_ret = NotWeighed

ShapeApply ==
    /\ map_pc = "idle"
    /\ Len(history) < MaxShapeHist
    /\ \E cell_no \in ShapeCellInputs(racks["A"]) :
         \E action \in ActionInputs :
           Apply("A", cell_no, ShapePart, 1, action)

FromIndices ==
    /\ map_pc = "idle"
    /\ last = NoLast
    /\ \E row_idx \in (0 - 1)..racks["A"].rows :
         \E col_idx \in (0 - 1)..racks["A"].cols :
           map_direct' = [row_idx |-> row_idx, col_idx |-> col_idx,
                          ret |-> indices_to_cell_no(racks["A"], row_idx, col_idx)]
    /\ map_pc' = "direct"
    /\ UNCHANGED <<session, map_rack, map_cell_no, map_idx, map_back,
                   weigh_cell, weigh_ret>>

NextShape == ShapeApply \/ FromIndices

SpecShape == InitShape /\ [][NextShape]_vars

(***************************************************************************)
(* Vocabulary of the properties                                            *)
(***************************************************************************)
\* the cell a cell number addresses
CellOf(rks, rn, cell_no) ==
    LET idx == cell_no_to_indices(rks[rn], cell_no)
    IN  rks[rn].array[idx.row_idx][idx.col_idx]

\* every grid position of every rack
Positions(rks) ==
    UNION {{<<rn, r, c>> : r \in 0..(rks[rn].rows - 1), c \in 0..(rks[rn].cols - 1)} :
           rn \in DOMAIN rks}

PositionOf(rks, rn, cell_no) ==
    LET idx == cell_no_to_indices(rks[rn], cell_no)
    IN  <<rn, idx.row_idx, idx.col_idx>>

CellAt(rks, pos) == rks[pos[1]].array[pos[2]][pos[3]]

\* equality of two entries; the Cell of a Master Update is "-", of a stock
\* movement a number, and the two are never compared
SameEntry(a, b) ==
    /\ a.Action = b.Action
    /\ a.Rack = b.Rack
    /\ a.PartNo = b.PartNo
    /\ a.Quantity = b.Quantity
    /\ a.User = b.User
    /\ (a.Action = "Master Update" \/ a.Cell = b.Cell)

SameEntries(g, h) ==
    /\ Len(g) = Len(h)
    /\ \A i \in 1..Len(g) : SameEntry(g[i], h[i])

Reversed(h) == [i \in 1..Len(h) |-> h[Len(h) + 1 - i]]

ApplyStep == last'.op = "Apply"
Rejected(l) == l.op = "Apply" /\ l.msg.kind = "error"
Succeeded(l) == l.op = "Apply" /\ l.msg.kind = "success"

\* the stock movement a successful Apply records
IsMovement(ev, l) ==
    /\ ev.Action = l.action
    /\ ev.Rack = l.rack
    /\ ev.Cell = l.cell_no
    /\ ev.PartNo = l.part_no
    /\ ev.Quantity = l.qty

\* the session is left as it was: every cell, the ledger
Untouched == racks' = racks /\ SameEntries(history', history)

(***************************************************************************)
(* C1. Capacity invariant: every cell of every rack has                    *)
(* 0 <= quantity <= CELL_CAPACITY, and its quantity is 0 exactly when its  *)
(* part number is None.                                                    *)
(***************************************************************************)
CapacityInvariant ==
    \A pos \in Positions(racks) :
        LET cell == CellAt(racks, pos)
        IN  /\ cell.Quantity \in 0..CELL_CAPACITY
            /\ (cell.Quantity = 0 <=> cell.PartNo = None)

\* an Add was rejected on a cell holding CELL_CAPACITY pieces of its part
CapacityWitness ==
    /\ Rejected(last) /\ last.action = "Add"
    /\ CellOf(racks, last.rack, last.cell_no) =
           [PartNo |-> last.part_no, Quantity |-> CELL_CAPACITY]

(***************************************************************************)
(* C2. Round trip: for every rack shape and every cell number in           *)
(* 1..spaces, cell_no_to_indices does not raise, and indices_to_cell_no of *)
(* its result does not raise and gives the cell number back.               *)
(***************************************************************************)
RoundTrip ==
    map_cell_no \in 1..map_rack.spaces =>
        /\ (map_pc \in {"indexed", "back"} => ~map_idx.raised)
        /\ (map_pc = "back" => ~map_back.raised /\ map_back.cell_no = map_cell_no)

\* a cell of an upper row of a rack with padding went round
RoundTripWitness ==
    /\ map_pc = "back"
    /\ map_rack.rows * map_rack.cols > map_rack.spaces
    /\ map_idx.row_idx < map_rack.rows - 1
    /\ map_idx.col_idx > 0
    /\ map_back.cell_no = map_cell_no

(***************************************************************************)
(* C3. The FIFO Part Finder returns the rack and cell number of the oldest *)
(* recorded Add of the part whose cell now holds the part with quantity    *)
(* > 0, with that cell's present quantity; Adds whose cell is now empty or *)
(* holds another part are passed over; it finds nothing exactly when no    *)
(* Add of the part passes.                                                 *)
(***************************************************************************)
Holds(p, rn, cell_no) ==
    LET cell == CellOf(racks, rn, cell_no)
    IN  cell.PartNo = p /\ cell.Quantity > 0

\* the Adds of p, by their place in the order of execution
AddsOf(p) == {k \in 1..Len(chron) : chron[k].Action = "Add" /\ chron[k].PartNo = p}

Candidates(p) == {k \in AddsOf(p) : Holds(p, chron[k].Rack, chron[k].Cell)}

Oldest(K) == CHOOSE k \in K : \A j \in K : k <= j

FifoAnswer(p) ==
    IF Candidates(p) = {} THEN FifoNone
    ELSE LET ev == chron[Oldest(Candidates(p))]
         IN  [Rack |-> ev.Rack, Cell |-> ev.Cell,
              Qty |-> CellOf(racks, ev.Rack, ev.Cell).Quantity]

FifoOldestPassingAdd ==
    /\ \A p \in SearchInputs : FifoScan(history, racks, p) = FifoAnswer(p)
    /\ last.op = "FindFifo" =>
          /\ fifo = FifoAnswer(last.part_no)
          /\ (last.msg = Msg("warning", "No FIFO candidate found")
                <=> Candidates(last.part_no) = {})
          /\ (last.msg = Msg("success", "FIFO pick")
                <=> Candidates(last.part_no) # {})

\* a lookup passed over the oldest Add of the part and returned a later one
FifoWitness ==
    /\ last.op = "FindFifo"
    /\ fifo # FifoNone
    /\ \E k \in AddsOf(last.part_no) :
          /\ k < Oldest(Candidates(last.part_no))
          /\ <<chron[k].Rack, chron[k].Cell>> # <<fifo.Rack, fifo.Cell>>

(***************************************************************************)
(* C4. The cell the FIFO Part Finder returns is the oldest stocked cell of *)
(* the part: no other cell holding the part has held its present stock     *)
(* since an earlier time.                                                  *)
(***************************************************************************)
FifoOldestStock ==
    (last.op = "FindFifo" /\ fifo # FifoNone) =>
        \A s \in SlotInputs :
            Holds(last.part_no, s[1], s[2]) => since[<<fifo.Rack, fifo.Cell>>] <= since[s]

(***************************************************************************)
(* C5. Apply is all-or-nothing: a rejected Apply leaves every cell and the *)
(* ledger as they were; a successful one changes the target cell, and no   *)
(* other, and puts exactly one entry, for this movement, on the ledger.    *)
(***************************************************************************)
AllOrNothing ==
    [][ApplyStep =>
         IF last'.msg.kind = "success"
         THEN LET target == PositionOf(racks, last'.rack, last'.cell_no)
              IN  /\ CellAt(racks', target) # CellAt(racks, target)
                  /\ \A pos \in Positions(racks) \ {target} :
                         CellAt(racks', pos) = CellAt(racks, pos)
                  /\ Len(history') = Len(history) + 1
                  /\ IsMovement(history'[1], last')
                  /\ SameEntries(Tail(history'), history)
         ELSE Untouched]_vars

\* an Add that would exceed the capacity was rejected on an empty cell
AllOrNothingWitness ==
    /\ Rejected(last) /\ last.action = "Add"
    /\ last.msg.text = "Exceeds cell capacity"
    /\ CellOf(racks, last.rack, last.cell_no) = EmptyCell
    /\ Len(history) > 0

(***************************************************************************)
(* C6. An Add to a cell that holds a different part is rejected with       *)
(* "Cell already has a different part" whatever the quantity, also one     *)
(* that would exceed the capacity, and the cell keeps its part and         *)
(* quantity.                                                               *)
(***************************************************************************)
AddMismatchRejected ==
    [][(/\ ApplyStep
        /\ last'.action = "Add"
        /\ CellOf(racks, last'.rack, last'.cell_no).PartNo \notin {None, last'.part_no})
       => /\ last'.msg = Msg("error", "Cell already has a different part")
          /\ Untouched]_vars

\* such an Add, of a quantity that would also exceed the capacity
AddMismatchWitness ==
    /\ Rejected(last) /\ last.action = "Add"
    /\ last.msg.text = "Cell already has a different part"
    /\ LET cell == CellOf(racks, last.rack, last.cell_no)
       IN  /\ cell.PartNo \notin {None, last.part_no}
           /\ cell.Quantity + last.qty > CELL_CAPACITY

(***************************************************************************)
(* C7. An Add to a cell that is empty or holds the part succeeds exactly   *)
(* when quantity held + qty <= CELL_CAPACITY; otherwise it is rejected     *)
(* with "Exceeds cell capacity" and nothing changes.                       *)
(***************************************************************************)
AddCapacity ==
    [][(/\ ApplyStep
        /\ last'.action = "Add"
        /\ CellOf(racks, last'.rack, last'.cell_no).PartNo \in {None, last'.part_no})
       => LET before == CellOf(racks, last'.rack, last'.cell_no)
              after == CellOf(racks', last'.rack, last'.cell_no)
          IN  IF before.Quantity + last'.qty <= CELL_CAPACITY
              THEN /\ last'.msg = Msg("success", "Added")
                   /\ after = [PartNo |-> last'.part_no,
                               Quantity |-> before.Quantity + last'.qty]
              ELSE /\ last'.msg = Msg("error", "Exceeds cell capacity")
                   /\ Untouched]_vars

\* an Add filled a cell that held stock to exactly CELL_CAPACITY
AddCapacityWitness ==
    /\ Succeeded(last) /\ last.action = "Add"
    /\ last.qty < CELL_CAPACITY
    /\ CellOf(racks, last.rack, last.cell_no) =
          [PartNo |-> last.part_no, Quantity |-> CELL_CAPACITY]

(***************************************************************************)
(* C8. A successful Subtract takes exactly qty from a cell holding the     *)
(* part; at 0 the part number becomes None, otherwise it is kept; one      *)
(* Subtract entry with the rack, cell number, part and qty is recorded.    *)
(* A cell a Subtract has emptied accepts an Add of any part.               *)
(***************************************************************************)
SubtractEffect ==
    [][ApplyStep =>
         LET before == CellOf(racks, last'.rack, last'.cell_no)
             after == CellOf(racks', last'.rack, last'.cell_no)
         IN  /\ (last'.action = "Subtract" /\ Succeeded(last')) =>
                   /\ before.PartNo = last'.part_no
                   /\ after.Quantity = before.Quantity - last'.qty
                   /\ after.PartNo = IF after.Quantity = 0 THEN None ELSE before.PartNo
                   /\ Len(history') = Len(history) + 1
                   /\ history'[1].Action = "Subtract"
                   /\ IsMovement(history'[1], last')
             /\ (/\ last'.action = "Add"
                 /\ last'.qty <= CELL_CAPACITY
                 /\ Len(history) > 0
                 /\ history[1].Action = "Subtract"
                 /\ history[1].Rack = last'.rack
                 /\ history[1].Cell = last'.cell_no
                 /\ before.Quantity = 0) =>
                   /\ Succeeded(last')
                   /\ after = [PartNo |-> last'.part_no, Quantity |-> last'.qty]]_vars

\* a cell emptied by a Subtract of one part then took an Add of another
SubtractWitness ==
    /\ Succeeded(last) /\ last.action = "Add"
    /\ Len(history) >= 3
    /\ history[2].Action = "Subtract"
    /\ history[2].Rack = last.rack
    /\ history[2].Cell = last.cell_no
    /\ history[2].PartNo # last.part_no
    /\ CellOf(racks, last.rack, last.cell_no) =
          [PartNo |-> last.part_no, Quantity |-> last.qty]

(***************************************************************************)
(* C9. A rejected Subtract.  The error kinds a message of the program can  *)
(* stand for are read off its text.                                        *)
(***************************************************************************)
ErrorKinds(text) ==
    CASE text = "Invalid cell number" -> {"OutOfRange"}
      [] text = "Cell already has a different part" -> {"PartMismatch"}
      [] text = "Exceeds cell capacity" -> {"CapacityExceeded"}
      [] text = "Mismatch or insufficient stock" -> {"PartMismatch", "InsufficientStock"}
      [] OTHER -> {}

\* C9 as stated: a rejected Subtract reports the specific kind, PartMismatch
\* when the cell is empty or holds another part, InsufficientStock when it
\* holds the part but fewer than qty pieces.
SubtractErrorSpecific ==
    (Rejected(last) /\ last.action = "Subtract") =>
        LET cell == CellOf(racks, last.rack, last.cell_no)
        IN  ErrorKinds(last.msg.text) =
              {IF cell.PartNo # last.part_no THEN "PartMismatch" ELSE "InsufficientStock"}

\* C9 as amended: a Subtract is rejected exactly when the cell is empty,
\* holds another part, or holds fewer than qty pieces of the part; in each
\* of these cases the message is the one text "Mismatch or insufficient
\* stock", and every cell and the ledger are left as they were.
SubtractRejection ==
    [][(ApplyStep /\ last'.action = "Subtract") =>
         LET before == CellOf(racks, last'.rack, last'.cell_no)
         IN  IF before.PartNo = last'.part_no /\ before.Quantity >= last'.qty
             THEN last'.msg = Msg("success", "Subtracted")
             ELSE /\ last'.msg = Msg("error", "Mismatch or insufficient stock")
                  /\ ErrorKinds(last'.msg.text) = {"PartMismatch", "InsufficientStock"}
                  /\ Untouched]_vars

\* a Subtract of more than the cell holds of the part was rejected
SubtractRejectionWitness ==
    /\ Rejected(last) /\ last.action = "Subtract"
    /\ LET cell == CellOf(racks, last.rack, last.cell_no)
       IN  /\ cell.PartNo = last.part_no
           /\ 0 < cell.Quantity /\ cell.Quantity < last.qty

(***************************************************************************)
(* C10. The ledger is newest first and only ever grows at its front: it    *)
(* lists the recorded operations in reverse order of execution, and every  *)
(* step leaves the entries already recorded as they were, in their order,  *)
(* as the tail of the ledger.                                              *)
(***************************************************************************)
LedgerNewestFirst ==
    [][/\ SameEntries(history', Reversed(chron'))
       /\ Len(history') \in {Len(history), Len(history) + 1}
       /\ SameEntries(SubSeq(history', Len(history') - Len(history) + 1, Len(history')),
                      history)]_vars

\* three operations of three kinds are listed, the last one first
LedgerWitness ==
    /\ Len(history) = 3
    /\ history[1].Action = "Subtract"
    /\ history[2].Action = "Master Update"
    /\ history[3].Action = "Add"

Grid(rack) == (0..(rack.rows - 1)) \X (0..(rack.cols - 1))

OutOfRangeRejected ==
    /\ [](LET rack == racks["A"]
          IN  /\ \A n \in (0 - 1)..(rack.spaces + 2) :
                    cell_no_to_indices(rack, n).raised <=> n \notin 1..rack.spaces
              /\ \A r \in (0 - 1)..rack.rows :
                    \A c \in (0 - 1)..rack.cols :
                        indices_to_cell_no(rack, r, c).raised <=> <<r, c>> \notin Grid(rack)
              /\ map_pc = "direct" =>
                    (map_direct.ret.raised
                       <=> <<map_direct.row_idx, map_direct.col_idx>> \notin Grid(rack)))
    /\ [][ApplyStep =>
             IF last'.cell_no \notin 1..racks[last'.rack].spaces
             THEN /\ last'.msg = Msg("error", "Invalid cell number")
                  /\ ErrorKinds(last'.msg.text) = {"OutOfRange"}
                  /\ Untouched
                  /\ part_master' = part_master
             ELSE last'.msg.text # "Invalid cell number"]_vars

\* an Apply on cell number 0 was refused while the rack held stock
OutOfRangeWitness ==
    /\ Rejected(last)
    /\ last.cell_no = 0
    /\ last.msg.text = "Invalid cell number"
    /\ Len(history) > 0
    /\ \E n \in 1..racks["A"].spaces : CellOf(racks, "A", n).Quantity > 0

(***************************************************************************)
(* C13. For a rack of every shape: rows * cols >= spaces;                  *)
(* cell_no_to_indices takes the cell numbers 1..spaces to indices inside   *)
(* the array, no two to the same; the rows * cols - spaces positions left  *)
(* over, the padding, are the positions no cell number in 1..spaces leads  *)
(* to, and indices_to_cell_no of a padding position is a number outside    *)
(* 1..spaces; in every reachable state the padding cells are empty.        *)
(***************************************************************************)
Addressed(rack) ==
    {<<cell_no_to_indices(rack, n).row_idx, cell_no_to_indices(rack, n).col_idx>> :
        n \in 1..rack.spaces}

Padding(rack) == Grid(rack) \ Addressed(rack)

PaddingSafe ==
    LET rack == racks["A"]
    IN  /\ rack.rows * rack.cols >= rack.spaces
        /\ \A n \in 1..rack.spaces :
              LET idx == cell_no_to_indices(rack, n)
              IN  ~idx.raised /\ <<idx.row_idx, idx.col_idx>> \in Grid(rack)
        /\ \A m, n \in 1..rack.spaces :
              PositionOf(racks, "A", m) = PositionOf(racks, "A", n) => m = n
        /\ Cardinality(Padding(rack)) = rack.rows * rack.cols - rack.spaces
        /\ \A pos \in Padding(rack) :
              /\ ~indices_to_cell_no(rack, pos[1], pos[2]).raised
              /\ indices_to_cell_no(rack, pos[1], pos[2]).cell_no \notin 1..rack.spaces
              /\ rack.array[pos[1]][pos[2]] = EmptyCell
        /\ (map_pc = "direct"
             /\ <<map_direct.row_idx, map_direct.col_idx>> \in Padding(rack))
              => /\ ~map_direct.ret.raised
                 /\ map_direct.ret.cell_no \notin 1..rack.spaces

\* the last cell of the rack holds stock, and an Apply was then given the
\* number indices_to_cell_no has for the padding position next to it
PaddingWitness ==
    /\ Rejected(last)
    /\ last.cell_no = racks["A"].spaces + 1
    /\ \E pos \in Padding(racks["A"]) :
          /\ indices_to_cell_no(racks["A"], pos[1], pos[2]).cell_no = last.cell_no
          /\ racks["A"].array[pos[1]][pos[2]] = EmptyCell
    /\ CellOf(racks, "A", racks["A"].spaces).Quantity > 0

(***************************************************************************)
(* C14. The grid export lists, for each rack, exactly the cell numbers     *)
(* 1..spaces, once each, in ascending order, and no padding position; the  *)
(* part number and quantity under cell number k are those of the cell at   *)
(* cell_no_to_indices(k), the cell an Apply on (rack, k) writes.           *)
(***************************************************************************)
\* what the listing of the rows of rack rn should be
RECURSIVE ExpectedGrid(_, _)
ExpectedGrid(rks, i) ==
    IF i > Len(RackNames) THEN <<>>
    ELSE IF RackNames[i] \in DOMAIN rks
         THEN [k \in 1..rks[RackNames[i]].spaces |->
                  <<RackNames[i], k, CellOf(rks, RackNames[i], k).PartNo,
                    CellOf(rks, RackNames[i], k).Quantity>>]
              \o ExpectedGrid(rks, i + 1)
         ELSE ExpectedGrid(rks, i + 1)

GridListing ==
    LET rows_out == prepare_rack_grid_csv(racks, part_master)
    IN  [i \in 1..Len(rows_out) |->
            <<rows_out[i].Rack, rows_out[i].Cell, rows_out[i].PartNo,
              rows_out[i].Quantity>>] = ExpectedGrid(racks, 1)

\* the last cell of a rack with padding in its top row holds stock an Add
\* on that cell number put there, and the export lists it under that number
GridListingWitness ==
    /\ Succeeded(last) /\ last.action = "Add"
    /\ last.cell_no = racks["A"].spaces
    /\ last.cell_no > 1
    /\ racks["A"].rows * racks["A"].cols > racks["A"].spaces
    /\ LET rows_out == prepare_rack_grid_csv(racks, part_master)
       IN  /\ Len(rows_out) = racks["A"].spaces
           /\ rows_out[last.cell_no].Quantity > 0
           /\ rows_out[last.cell_no].PartNo = last.part_no

(***************************************************************************)
(* C15. cell_total_weight of an empty cell is 0; of a cell holding qty     *)
(* pieces of a part it is qty times the part's unit weight plus            *)
(* PACKAGING_WEIGHT, a part that is not in the part master counting with   *)
(* unit weight 0: an occupied cell weighs at least PACKAGING_WEIGHT, an    *)
(* empty one never includes it.  (Weights in hundredths of a kilogram.)    *)
(***************************************************************************)
UnitWeight(pn) == IF pn \in DOMAIN part_master THEN part_master[pn].Weight ELSE 0

CellWeight ==
    weigh_ret.returned =>
        IF weigh_cell = EmptyCell
        THEN weigh_ret.value = 0
        ELSE /\ weigh_ret.value =
                  weigh_cell.Quantity * UnitWeight(weigh_cell.PartNo) + PACKAGING_WEIGHT
             /\ weigh_ret.value >= PACKAGING_WEIGHT

\* a cell holding a part that is not in the part master weighs the packaging
CellWeightWitness ==
    /\ weigh_ret.returned
    /\ weigh_cell.Quantity > 1
    /\ weigh_cell.PartNo \notin DOMAIN part_master
    /\ weigh_ret.value = PACKAGING_WEIGHT

(***************************************************************************)
(* C16. A successful Add sets the cell's part number to the part, raises   *)
(* its quantity by exactly qty, and records one Add entry carrying the     *)
(* rack, the cell number as entered (1-based), the part and qty; that      *)
(* entry's rack and cell number, through cell_no_to_indices, lead back to  *)
(* the one cell the Add changed.                                           *)
(***************************************************************************)
Changed == {pos \in Positions(racks) : CellAt(racks', pos) # CellAt(racks, pos)}

AddEffect ==
    [][(ApplyStep /\ last'.action = "Add" /\ Succeeded(last')) =>
         LET ev == history'[1]
             before == CellOf(racks, last'.rack, last'.cell_no)
             after == CellOf(racks', last'.rack, last'.cell_no)
         IN  /\ after.PartNo = last'.part_no
             /\ after.Quantity = before.Quantity + last'.qty
             /\ Len(history') = Len(history) + 1
             /\ SameEntries(Tail(history'), history)
             /\ ev = Entry("Add", last'.rack, last'.cell_no, last'.part_no,
                           last'.qty, user)
             /\ ev.Cell \in 1..racks'[ev.Rack].spaces
             /\ ~cell_no_to_indices(racks'[ev.Rack], ev.Cell).raised
             /\ Changed = {PositionOf(racks', ev.Rack, ev.Cell)}
             /\ CellOf(racks', ev.Rack, ev.Cell) = after]_vars

\* an Add topped up the top-right cell of rack A, which held the part
AddEffectWitness ==
    /\ Succeeded(last) /\ last.action = "Add"
    /\ history[1].Rack = "A" /\ history[1].Cell = RACK_SPACES["A"]
    /\ PositionOf(racks, "A", history[1].Cell) = <<"A", 0, 2>>
    /\ CellAt(racks, <<"A", 0, 2>>).PartNo = history[1].PartNo
    /\ CellAt(racks, <<"A", 0, 2>>).Quantity > history[1].Quantity

(***************************************************************************)
(* C17. Ledger conservation: in every reachable state the quantity of the  *)
(* cell at every rack and cell number is the sum of the quantities of the  *)
(* Add entries for that rack and cell minus the sum of those of its        *)
(* Subtract entries, and the ledger has one entry for every successful Add *)
(* or Subtract and every master update: a step lengthens it by one exactly *)
(* when it is one of these.                                                *)
(***************************************************************************)
RECURSIVE NetQuantity(_, _, _)
NetQuantity(h, rn, cell_no) ==
    IF h = <<>> THEN 0
    ELSE LET ev == Head(h)
             delta == IF ev.Action \in {"Add", "Subtract"} /\ ev.Rack = rn
                         /\ ev.Cell = cell_no
                      THEN IF ev.Action = "Add" THEN ev.Quantity ELSE 0 - ev.Quantity
                      ELSE 0
         IN  delta + NetQuantity(Tail(h), rn, cell_no)

Conserved(rks, h) ==
    \A rn \in DOMAIN rks :
        \A cell_no \in 1..rks[rn].spaces :
            CellOf(rks, rn, cell_no).Quantity = NetQuantity(h, rn, cell_no)

LedgerConservation ==
    /\ []Conserved(racks, history)
    /\ [][Len(history') = Len(history) +
             (IF last'.op \in {"Apply", "Master"} /\ last'.msg.kind = "success"
              THEN 1 ELSE 0)]_vars

\* two Adds and a Subtract on one cell, which holds what is left of them
LedgerConservationWitness ==
    /\ Len(history) = 3
    /\ history[1].Action = "Subtract"
    /\ history[2].Action = "Add" /\ history[3].Action = "Add"
    /\ \A i \in 1..3 : history[i].Rack = last.rack /\ history[i].Cell = last.cell_no
    /\ LET q == CellOf(racks, last.rack, last.cell_no).Quantity
       IN  q > 0 /\ q = history[3].Quantity + history[2].Quantity - history[1].Quantity

(***************************************************************************)
(* C18. FIFO completeness: in every reachable state the FIFO Part Finder   *)
(* finds nothing for a part exactly when no cell of any rack holds the     *)
(* part with quantity > 0; and every non-empty cell has an Add entry with  *)
(* its rack, its cell number and the part it holds now.                    *)
(***************************************************************************)
Stocked(p) ==
    \E pos \in Positions(racks) :
        CellAt(racks, pos).PartNo = p /\ CellAt(racks, pos).Quantity > 0

FifoComplete ==
    /\ \A p \in DOMAIN part_master \cup SearchInputs :
          FifoScan(history, racks, p) = FifoNone <=> ~Stocked(p)
    /\ \A rn \in DOMAIN racks :
          \A cell_no \in 1..racks[rn].spaces :
              LET cell == CellOf(racks, rn, cell_no)
              IN  cell # EmptyCell =>
                    \E i \in 1..Len(history) :
                        /\ history[i].Action = "Add"
                        /\ history[i].Rack = rn
                        /\ history[i].Cell = cell_no
                        /\ history[i].PartNo = cell.PartNo
    /\ last.op = "FindFifo" =>
          /\ fifo = FifoNone <=> ~Stocked(last.part_no)
          /\ last.msg = Msg("warning", "No FIFO candidate found") <=> ~Stocked(last.part_no)

\* the part is found in the second cell it was added to, the first one
\* having been emptied
FifoCompleteWitness ==
    /\ last.op = "FindFifo"
    /\ Len(history) = 3
    /\ history[3].Action = "Add" /\ history[3].PartNo = last.part_no
    /\ history[2].Action = "Subtract"
    /\ CellOf(racks, history[3].Rack, history[3].Cell) = EmptyCell
    /\ history[1].Action = "Add" /\ history[1].PartNo = last.part_no
    /\ fifo.Rack = history[1].Rack /\ fifo.Cell = history[1].Cell
    /\ fifo.Rack # history[3].Rack

(***************************************************************************)
(* C19. Frame: an Apply (Add or Subtract) on a rack and cell number        *)
(* changes at most that one cell; every other cell of that rack and of     *)
(* every other rack, the shape of every rack and the part master stay as   *)
(* they were.  The FIFO Part Finder changes no cell, no ledger entry and   *)
(* no part master record.  A master update changes no cell.                *)
(***************************************************************************)
Shape(rack) == <<rack.rows, rack.cols, rack.spaces>>

Frame ==
    [][/\ DOMAIN racks' = DOMAIN racks
       /\ \A rn \in DOMAIN racks : Shape(racks'[rn]) = Shape(racks[rn])
       /\ last'.op = "Apply" =>
             /\ \A rn \in DOMAIN racks \ {last'.rack} : racks'[rn] = racks[rn]
             /\ \A r \in 0..(racks[last'.rack].rows - 1) :
                   \A c \in 0..(racks[last'.rack].cols - 1) :
                       <<last'.rack, r, c>> # PositionOf(racks, last'.rack, last'.cell_no)
                         => racks'[last'.rack].array[r][c] = racks[last'.rack].array[r][c]
             /\ part_master' = part_master
       /\ last'.op = "FindFifo" =>
             /\ racks' = racks
             /\ SameEntries(history', history)
             /\ part_master' = part_master
       /\ last'.op = "Master" => racks' = racks]_vars

\* a Subtract took stock from one rack while a cell of the other rack kept
\* the stock an earlier Add had put there
FrameWitness ==
    /\ Succeeded(last) /\ last.action = "Subtract"
    /\ CellOf(racks, last.rack, last.cell_no).Quantity > 0
    /\ \E i \in 2..Len(history) :
          /\ history[i].Action = "Add"
          /\ history[i].Rack # last.rack
          /\ CellOf(racks, history[i].Rack, history[i].Cell) =
                [PartNo |-> history[i].PartNo, Quantity |-> history[i].Quantity]

(***************************************************************************)
(* C20. The master update.                                                 *)
(***************************************************************************)
\* afterwards the part master maps pn to exactly the record given, has every
\* other record as before, and has lost none
Upserted(pn, wt, cust, tube) ==
    /\ DOMAIN part_master' = DOMAIN part_master \cup {pn}
    /\ part_master'[pn] = [Weight |-> wt, Customer |-> cust, TubeLength |-> tube]
    /\ \A k \in DOMAIN part_master \ {pn} : part_master'[k] = part_master[k]

IsStockEntry(ev) == ev.Action # "Master Update"

\* the FIFO Part Finder answers as it would on the ledger without its
\* Master Update entries
FifoSkipsMaster(h, rks) ==
    \A p \in DOMAIN part_master \cup SearchInputs :
        FifoScan(h, rks, p) = FifoScan(SelectSeq(h, IsStockEntry), rks, p)

\* C20 as stated: the update is unconditional: for every part number given,
\* afterwards the part master maps it to exactly the weight, customer and
\* length given, and every other record is as before.
UpsertUnconditional ==
    [][\A pn \in MasterPnInputs :
         \A wt \in MasterWtInputs :
           MasterUpdate(pn, wt, "Mahindra Pune", 1254)
             => Upserted(pn, wt, "Mahindra Pune", 1254)]_vars

\* C20 as amended: for every part number that is not empty, the update
\* overwrites or inserts: afterwards the part master maps it to exactly the
\* weight, customer and length given, every other record is as before, and
\* one Master Update entry is recorded; with an empty part number nothing
\* is written, neither a record nor an entry.  No step ever deletes a
\* record, and the FIFO Part Finder never selects a Master Update entry,
\* for any part: its answers are those on the ledger without them.
UpsertNonEmpty ==
    /\ []FifoSkipsMaster(history, racks)
    /\ [][/\ DOMAIN part_master \subseteq DOMAIN part_master'
          /\ last'.op # "Master" => part_master' = part_master
          /\ \A pn \in MasterPnInputs :
               \A wt \in MasterWtInputs :
                 MasterUpdate(pn, wt, "Mahindra Pune", 1254) =>
                    IF pn # ""
                    THEN /\ Upserted(pn, wt, "Mahindra Pune", 1254)
                         /\ Len(history') = Len(history) + 1
                         /\ SameEntry(history'[1],
                                      Entry("Master Update", "-", "-", pn, 0, user))
                         /\ \A p \in DOMAIN part_master' \cup SearchInputs :
                               FifoScan(history', racks', p) = FifoScan(history, racks, p)
                    ELSE /\ part_master' = part_master
                         /\ SameEntries(history', history)]_vars

\* the record of a part the master form had added was written again, and
\* a lookup of a stocked part went past both Master Update entries
UpsertWitness ==
    /\ Len(history) = 3
    /\ history[1].Action = "Master Update" /\ history[1].PartNo = NewPart
    /\ history[2].Action = "Master Update" /\ history[2].PartNo = NewPart
    /\ history[3].Action = "Add"
    /\ NewPart \in DOMAIN part_master
    /\ last.op = "FindFifo" /\ last.part_no = history[3].PartNo
    /\ fifo.Rack = history[3].Rack /\ fifo.Cell = history[3].Cell

====
